---- MODULE Spec2Model ----
(***************************************************************************)
(* Model of functions/summarize_video/main.py:                             *)
(*   - match_with_video_shots, the interval aligner (AlignSpec);           *)
(*   - summarize_transcript in "automated" mode, the duration convergence  *)
(*     loop around the text-shortening oracle (Spec, FairSpec).            *)
(* Times are whole seconds.  Python lists are 0-based: the cursors keep    *)
(* the 0-based values of the code and At(s, i) reads s[i].                *)
(***************************************************************************)
EXTENDS Integers, Sequences, FiniteSets, TLC

VARIABLES
  \* ---- match_with_video_shots ----
  video_shots,   \* list of shots [start_time, end_time]
  words,         \* word timeline (transcript_words in the handler)
  transcript,    \* the clips being adjusted in place
  original,      \* the clips as the Span Mapper produced them (history)
  shot_index,    \* cursor into video_shots
  word_index,    \* cursor into words
  index,         \* position of the for loop
  apc,           \* "start" | "end" | "returned" | "IndexError"
  pass,          \* 1: first run; 2: run on the output of the first run
  first_out,     \* the list returned by the first run
  \* ---- summarize_transcript ----
  request,         \* request.data: max, min, language_code as sent
  pc,              \* "parse" | "first" | "loop" | "done" ("idle" in AlignSpec)
  max_duration,
  min_duration,
  language,        \* "Thai" | "DefaultLanguage"
  shortened_text,
  duration,
  temperature,     \* in tenths: 2 is 0.2, 6 is 0.6
  oracle_calls,    \* calls of llm.send_transcript_to_llm so far (history)
  last_input,      \* the text of the last oracle call's prompt (history)
  call_temperature,\* the temperature argument of the last oracle call (history)
  long_retries,    \* passes through the else branch of the loop so far (history)
  mapper_calls,    \* calls of language.get_clips_from_transcript (history)
  blocked_mapped,  \* the blocked sentinel was passed to the Span Mapper (history)
  summary,         \* what firestore.upload_summary stored
  transformation,  \* what firestore.upload_summary_transformation stored
  response         \* what the handler returned or raised

avars == <<transcript, original, shot_index, word_index, index, apc, pass, first_out>>

cvars == <<request, pc, max_duration, min_duration, language, shortened_text,
           duration, temperature, oracle_calls, last_input, call_temperature,
           long_retries, mapper_calls, blocked_mapped, summary, transformation,
           response>>

vars == <<video_shots, words, avars, cvars>>

\* ---- bounds ----
MaxTime == 4      \* times range over 0..MaxTime
MaxWords == 4     \* longest word timeline drawn
MaxClips == 2     \* longest clip list drawn
MaxRuns == 1      \* most sentences in a text the oracle returns
MaxCalls == 5     \* oracle_calls and mapper_calls stop counting here

\* ---- program constants ----
MAX_DURATION == 40
MIN_DURATION == 10
LANGUAGE_CODE == "en-US"

Min(a, b) == IF a <= b THEN a ELSE b
Max(a, b) == IF a >= b THEN a ELSE b
At(s, i) == s[i + 1]

\* ---- input domains ----------------------------------------------------

\* ascending, pairwise disjoint words of positive length starting at or
\* after t, at most n of them
RECURSIVE WordSeqs(_, _)
WordSeqs(t, n) ==
  IF n = 0 THEN {<<>>}
  ELSE {<<>>} \cup
       UNION { UNION { { <<[startTime |-> s, endTime |-> e]>> \o rest :
                         rest \in WordSeqs(e, n - 1) } :
                       e \in (s + 1)..MaxTime } :
               s \in t..(MaxTime - 1) }

\* ascending, pairwise disjoint runs <<a, b>> of word positions a..b (0-based)
\* with a >= from, over k words, at most n runs
RECURSIVE Runs(_, _, _)
Runs(from, k, n) ==
  IF n = 0 THEN {<<>>}
  ELSE {<<>>} \cup
       UNION { UNION { { <<(<<a, b>>)>> \o rest : rest \in Runs(b + 1, k, n - 1) } :
                       b \in a..(k - 1) } :
               a \in from..(k - 1) }

\* contiguous shots cut at the points of c, in ascending order
RECURSIVE ShotsOfCuts(_)
ShotsOfCuts(c) ==
  IF Cardinality(c) < 2 THEN <<>>
  ELSE LET lo == CHOOSE x \in c : \A y \in c : x <= y
           r  == c \ {lo}
           nx == CHOOSE x \in r : \A y \in r : x <= y
       IN <<[start_time |-> lo, end_time |-> nx]>> \o ShotsOfCuts(r)

ShotSeqs == { ShotsOfCuts(c) : c \in { d \in SUBSET (0..MaxTime) : Cardinality(d) >= 2 } }

\* the clip a Span Mapper derives from the run a..b of the word timeline
ClipOfRun(wds, r) ==
  [startTime |-> At(wds, r[1]).startTime,
   endTime   |-> At(wds, r[2]).endTime,
   duration  |-> 0]

ClipsOfRuns(wds, rs) == [i \in 1..Len(rs) |-> ClipOfRun(wds, rs[i])]

\* ---- match_with_video_shots ---------------------------------------------

\* while video_shots[shot_index]['end_time'] <= line['startTime']: shot_index += 1
\* The result Len(shots) stands for the read past the end of the list.
RECURSIVE ShotSeekStart(_, _, _)
ShotSeekStart(shots, si, t) ==
  IF si >= Len(shots) THEN si
  ELSE IF At(shots, si).end_time <= t THEN ShotSeekStart(shots, si + 1, t)
  ELSE si

\* the end seek held at the last shot instead of reading past it
RECURSIVE ShotSeekEnd_Clamped(_, _, _)
ShotSeekEnd_Clamped(shots, si, t) ==
  IF si >= Len(shots) - 1 THEN si
  ELSE IF At(shots, si).end_time < t THEN ShotSeekEnd_Clamped(shots, si + 1, t)
  ELSE si

\* while video_shots[shot_index]['end_time'] < line['endTime']: shot_index += 1
RECURSIVE ShotSeekEnd(_, _, _)
ShotSeekEnd(shots, si, t) ==
  IF si >= Len(shots) THEN si
  ELSE IF At(shots, si).end_time < t THEN ShotSeekEnd(shots, si + 1, t)
  ELSE si

\* while word_index + 1 < len(words) - 1 and
\*       words[word_index+1]['endTime'] < line['startTime']: word_index += 1
RECURSIVE WordSeekStart(_, _, _)
WordSeekStart(wds, wi, t) ==
  IF wi + 1 < Len(wds) - 1 /\ At(wds, wi + 1).endTime < t
  THEN WordSeekStart(wds, wi + 1, t)
  ELSE wi

\* the end seek bounded by len(words) - 1
RECURSIVE WordSeekEnd_ToLast(_, _, _)
WordSeekEnd_ToLast(wds, wi, t) ==
  IF wi < Len(wds) - 1 /\ At(wds, wi).startTime < t
  THEN WordSeekEnd_ToLast(wds, wi + 1, t)
  ELSE wi

\* while word_index < len(words) - 2 and
\*       words[word_index]['startTime'] < line['endTime']: word_index += 1
RECURSIVE WordSeekEnd(_, _, _)
WordSeekEnd(wds, wi, t) ==
  IF wi < Len(wds) - 2 /\ At(wds, wi).startTime < t
  THEN WordSeekEnd(wds, wi + 1, t)
  ELSE wi

\* lines 74-86 for one line: the cursors after the two seeks and the line
\* with its adjusted startTime; err when a list is read past its end
StartStep(shots, wds, si, wi, line) ==
  LET si2 == ShotSeekStart(shots, si, line.startTime) IN
  IF si2 >= Len(shots) \/ wi >= Len(wds)
  THEN [err |-> TRUE, shot_index |-> si2, word_index |-> wi, line |-> line]
  ELSE LET video_shot    == At(shots, si2)
           start_time    == Min(line.startTime, video_shot.start_time)
           wi2           == WordSeekStart(wds, wi, line.startTime)
           previous_word == At(wds, wi2)
           adjusted      == IF previous_word.startTime # line.startTime
                            THEN Max(previous_word.endTime, start_time)
                            ELSE start_time
       IN [err |-> FALSE, shot_index |-> si2, word_index |-> wi2,
           line |-> [line EXCEPT !.startTime = adjusted]]

\* lines 88-102 for one line
EndStep(shots, wds, si, wi, line) ==
  LET si2 == ShotSeekEnd(shots, si, line.endTime) IN
  IF si2 >= Len(shots)
  THEN [err |-> TRUE, shot_index |-> si2, word_index |-> wi, line |-> line]
  ELSE LET video_shot == At(shots, si2)
           end_time   == Max(line.endTime, video_shot.end_time)
           wi2        == WordSeekEnd(wds, wi, line.endTime)
           next_word  == At(wds, wi2)
           adjusted   == IF next_word.endTime # line.endTime
                         THEN Min(end_time, next_word.startTime)
                         ELSE end_time
       IN [err |-> FALSE, shot_index |-> si2, word_index |-> wi2,
           line |-> [line EXCEPT !.endTime = adjusted,
                                 !.duration = adjusted - line.startTime]]

\* the whole call: the returned list, or err for the IndexError it raises
RECURSIVE MatchFrom(_, _, _, _, _, _)
MatchFrom(shots, lines, wds, i, si, wi) ==
  IF i >= Len(lines) THEN [err |-> FALSE, transcript |-> lines]
  ELSE LET s == StartStep(shots, wds, si, wi, At(lines, i)) IN
       IF s.err THEN [err |-> TRUE, transcript |-> lines]
       ELSE LET e == EndStep(shots, wds, s.shot_index, s.word_index, s.line) IN
            IF e.err THEN [err |-> TRUE, transcript |-> lines]
            ELSE MatchFrom(shots, [lines EXCEPT ![i + 1] = e.line], wds, i + 1,
                           e.shot_index, e.word_index)

match_with_video_shots(shots, lines, wds) == MatchFrom(shots, lines, wds, 0, 0, 0)


\* ---- texts, the oracle and the Span Mapper ------------------------------

\* A text is the joined input lines ("full"), the blocked sentinel
\* "The response was blocked", or a shortened text, standing for the runs of
\* transcript words whose sentences it keeps.
FullText == [kind |-> "full", runs |-> <<>>]
BlockedText == [kind |-> "blocked", runs |-> <<>>]
NoText == [kind |-> "unset", runs |-> <<>>]
Text(rs) == [kind |-> "text", runs |-> rs]

\* what llm.send_transcript_to_llm can return for the transcript wds
OracleOutputs(wds) == { Text(rs) : rs \in Runs(0, Len(wds), MaxRuns) } \cup {BlockedText}

\* language.get_clips_from_transcript: the clips of the sentences the text
\* keeps; a text that keeps none (the sentinel included) maps to no clip
get_clips_from_transcript(wds, text) == ClipsOfRuns(wds, text.runs)

RECURSIVE SumDurations(_, _)
SumDurations(clips, n) ==
  IF n = 0 THEN 0 ELSE SumDurations(clips, n - 1) + clips[n].duration

\* lines 39-54
calculate_duration(text, wds, shots) ==
  LET clips == match_with_video_shots(shots, get_clips_from_transcript(wds, text), wds)
  IN [err |-> clips.err,
      total_duration |-> IF clips.err THEN 0
                         ELSE SumDurations(clips.transcript, Len(clips.transcript))]

\* The temperature argument of a call of llm.send_transcript_to_llm: passed
\* with a value (in tenths), or left to the callee's default.
NoCall == [passed |-> FALSE, value |-> 0]
OmittedTemperature == [passed |-> FALSE, value |-> 0]
PassedTemperature(t) == [passed |-> TRUE, value |-> t]

\* a float() that only fails on a missing value
Floatable_AnyPresent(f) == f.kind # "missing"

\* float(x) raises for a missing (None) or unparseable value
Floatable(f) == f.kind = "num"

Count(n) == IF n < MaxCalls THEN n + 1 ELSE n

\* the controller's variables while only the aligner runs
CtlIdle ==
  /\ request = [max |-> [kind |-> "missing", val |-> 0],
                min |-> [kind |-> "missing", val |-> 0],
                language_code |-> "None"]
  /\ pc = "idle"
  /\ max_duration = 0
  /\ min_duration = 0
  /\ language = "DefaultLanguage"
  /\ shortened_text = NoText
  /\ duration = 0
  /\ temperature = 2
  /\ oracle_calls = 0
  /\ last_input = NoText
  /\ call_temperature = NoCall
  /\ long_retries = 0
  /\ mapper_calls = 0
  /\ blocked_mapped = FALSE
  /\ summary = NoText
  /\ transformation = NoText
  /\ response = [kind |-> "none", segments |-> <<>>]

\* ---- the aligner as a state machine --------------------------------------

AlignInit ==
  /\ video_shots \in ShotSeqs
  /\ words \in (WordSeqs(0, MaxWords) \ {<<>>})
  /\ \E rs \in Runs(0, Len(words), MaxClips) : transcript = ClipsOfRuns(words, rs)
  /\ original = transcript
  /\ shot_index = 0
  /\ word_index = 0
  /\ index = 0
  /\ apc = "start"
  /\ pass = 1
  /\ first_out = <<>>
  /\ CtlIdle

\* lines 73-86: the next line of the for loop, up to the write of startTime
AdjustStart ==
  /\ apc = "start"
  /\ index < Len(transcript)
  /\ LET s == StartStep(video_shots, words, shot_index, word_index, At(transcript, index)) IN
       /\ shot_index' = s.shot_index
       /\ word_index' = s.word_index
       /\ transcript' = [transcript EXCEPT ![index + 1] = s.line]
       /\ apc' = IF s.err THEN "IndexError" ELSE "end"
  /\ UNCHANGED <<video_shots, words, original, index, pass, first_out, cvars>>

\* lines 88-102: the rest of the loop body
AdjustEnd ==
  /\ apc = "end"
  /\ LET e == EndStep(video_shots, words, shot_index, word_index, At(transcript, index)) IN
       /\ shot_index' = e.shot_index
       /\ word_index' = e.word_index
       /\ transcript' = [transcript EXCEPT ![index + 1] = e.line]
       /\ apc' = IF e.err THEN "IndexError" ELSE "start"
       /\ index' = IF e.err THEN index ELSE index + 1
  /\ UNCHANGED <<video_shots, words, original, pass, first_out, cvars>>

\* line 103: return transcript
Return ==
  /\ apc = "start"
  /\ index >= Len(transcript)
  /\ apc' = "returned"
  /\ first_out' = IF pass = 1 THEN transcript ELSE first_out
  /\ UNCHANGED <<video_shots, words, transcript, original, shot_index, word_index,
                 index, pass, cvars>>

\* a second call on the list the first call returned, with the same
\* timelines; the cursors are locals, so they start at 0 again (lines 71-72)
Realign ==
  /\ apc = "returned"
  /\ pass = 1
  /\ pass' = 2
  /\ shot_index' = 0
  /\ word_index' = 0
  /\ index' = 0
  /\ apc' = "start"
  /\ UNCHANGED <<video_shots, words, transcript, original, first_out, cvars>>

AlignNext == AdjustStart \/ AdjustEnd \/ Return \/ Realign

AlignSpec == AlignInit /\ [][AlignNext]_vars


\* ---- summarize_transcript, version "automated" ---------------------------

FixtureWords ==
  << [startTime |-> 0,  endTime |-> 5],  [startTime |-> 5,  endTime |-> 10],
     [startTime |-> 10, endTime |-> 50], [startTime |-> 50, endTime |-> 60] >>

ShotFixtures ==
  { << [start_time |-> 0,  end_time |-> 5],  [start_time |-> 5,  end_time |-> 10],
       [start_time |-> 10, end_time |-> 50], [start_time |-> 50, end_time |-> 60] >>,
    << [start_time |-> 0,  end_time |-> 10], [start_time |-> 10, end_time |-> 50] >> }

NumFields(vals) ==
  { [kind |-> "missing", val |-> 0], [kind |-> "bad", val |-> 0] }
    \cup { [kind |-> "num", val |-> v] : v \in vals }

Requests ==
  [max : NumFields({20}), min : NumFields({5}),
   language_code : {"None", "xx", "th-TH"}]

Init ==
  /\ video_shots \in ShotFixtures
  /\ words = FixtureWords
  /\ transcript = <<>>
  /\ original = <<>>
  /\ shot_index = 0
  /\ word_index = 0
  /\ index = 0
  /\ apc = "idle"
  /\ pass = 1
  /\ first_out = <<>>
  /\ request \in Requests
  /\ pc = "parse"
  /\ max_duration = 0
  /\ min_duration = 0
  /\ language = "DefaultLanguage"
  /\ shortened_text = NoText
  /\ duration = 0
  /\ temperature = 2
  /\ oracle_calls = 0
  /\ last_input = NoText
  /\ call_temperature = NoCall
  /\ long_retries = 0
  /\ mapper_calls = 0
  /\ blocked_mapped = FALSE
  /\ summary = NoText
  /\ transformation = NoText
  /\ response = [kind |-> "none", segments |-> <<>>]

\* lines 133-145: one try block around the three reads, a bare except that
\* sets the three defaults
ParseRequest ==
  /\ pc = "parse"
  /\ LET ok == Floatable(request.max) /\ Floatable(request.min)
         language_code == IF ok THEN request.language_code ELSE LANGUAGE_CODE
     IN /\ max_duration' = IF ok THEN request.max.val ELSE MAX_DURATION
        /\ min_duration' = IF ok THEN request.min.val ELSE MIN_DURATION
        /\ language' = IF language_code = "th-TH" THEN "Thai" ELSE "DefaultLanguage"
  /\ pc' = "first"
  /\ UNCHANGED <<video_shots, words, avars, request, shortened_text, duration,
                 temperature, oracle_calls, last_input, call_temperature,
                 long_retries, mapper_calls, blocked_mapped, summary,
                 transformation, response>>

\* the blocked check left out
IsBlocked_Never(text) == FALSE

\* line 160: if shortened_text == "The response was blocked"
IsBlocked(text) == text.kind = "blocked"

\* lines 152-177: the first oracle call, the blocked check, the first
\* duration, temperature = 0.2
FirstAttempt ==
  /\ pc = "first"
  /\ \E out \in OracleOutputs(words) :
       LET d == calculate_duration(out, words, video_shots) IN
       /\ shortened_text' = out
       /\ oracle_calls' = Count(oracle_calls)
       /\ last_input' = FullText
       /\ IF IsBlocked(out)
          THEN /\ response' = [kind |-> "ValueError", segments |-> <<>>]
               /\ pc' = "done"
               /\ UNCHANGED <<duration, mapper_calls, blocked_mapped>>
          ELSE /\ mapper_calls' = Count(mapper_calls)
               /\ blocked_mapped' = (blocked_mapped \/ out.kind = "blocked")
               /\ IF d.err
                  THEN /\ response' = [kind |-> "IndexError", segments |-> <<>>]
                       /\ pc' = "done"
                       /\ UNCHANGED duration
                  ELSE /\ duration' = d.total_duration
                       /\ pc' = "loop"
                       /\ UNCHANGED response
  /\ temperature' = 2
  /\ call_temperature' = OmittedTemperature
  /\ UNCHANGED <<video_shots, words, avars, request, max_duration, min_duration,
                 language, long_retries, summary, transformation>>

\* the while condition with the ceiling compared by <=
LoopCond_Through06 ==
  temperature <= 6 /\ (duration > max_duration \/ duration < min_duration)

\* the while condition without its too-short half
LoopCond_OnlyTooLong ==
  temperature < 6 /\ duration > max_duration

\* line 178: the while condition
LoopCond ==
  temperature < 6 /\ (duration > max_duration \/ duration < min_duration)

\* the too-short branch re-shortening the rejected text
RetryShort_OnShortened ==
  /\ pc = "loop"
  /\ LoopCond
  /\ duration < min_duration
  /\ \E out \in OracleOutputs(words) :
       /\ shortened_text' = out
  /\ oracle_calls' = Count(oracle_calls)
  /\ last_input' = shortened_text
  /\ call_temperature' = OmittedTemperature
  /\ UNCHANGED <<video_shots, words, avars, request, pc, max_duration, min_duration,
                 language, duration, temperature, long_retries, mapper_calls,
                 blocked_mapped, summary, transformation, response>>

\* lines 179-180: the too-short branch
RetryShort ==
  /\ pc = "loop"
  /\ LoopCond
  /\ duration < min_duration
  /\ \E out \in OracleOutputs(words) :
       /\ shortened_text' = out
  /\ oracle_calls' = Count(oracle_calls)
  /\ last_input' = FullText
  /\ call_temperature' = OmittedTemperature
  /\ UNCHANGED <<video_shots, words, avars, request, pc, max_duration, min_duration,
                 language, duration, temperature, long_retries, mapper_calls,
                 blocked_mapped, summary, transformation, response>>

\* lines 181-193: the else branch
RetryLong ==
  /\ pc = "loop"
  /\ LoopCond
  /\ ~(duration < min_duration)
  /\ \E out \in OracleOutputs(words) :
       LET d == calculate_duration(out, words, video_shots) IN
       /\ shortened_text' = out
       /\ IF d.err
          THEN /\ response' = [kind |-> "IndexError", segments |-> <<>>]
               /\ pc' = "done"
               /\ UNCHANGED <<duration, temperature>>
          ELSE /\ duration' = d.total_duration
               /\ temperature' = temperature + 1
               /\ UNCHANGED <<pc, response>>
       /\ blocked_mapped' = (blocked_mapped \/ out.kind = "blocked")
  /\ oracle_calls' = Count(oracle_calls)
  /\ last_input' = shortened_text
  /\ call_temperature' = OmittedTemperature
  /\ long_retries' = long_retries + 1
  /\ mapper_calls' = Count(mapper_calls)
  /\ UNCHANGED <<video_shots, words, avars, request, max_duration, min_duration,
                 language, summary, transformation>>

\* lines 219-238, reached when the while condition is false
Finish ==
  /\ pc = "loop"
  /\ ~LoopCond
  /\ summary' = shortened_text
  /\ mapper_calls' = Count(mapper_calls)
  /\ blocked_mapped' = (blocked_mapped \/ shortened_text.kind = "blocked")
  /\ LET segments == match_with_video_shots(video_shots,
                       get_clips_from_transcript(words, shortened_text), words)
     IN IF segments.err
        THEN /\ response' = [kind |-> "IndexError", segments |-> <<>>]
             /\ UNCHANGED transformation
        ELSE /\ response' = [kind |-> "segments", segments |-> segments.transcript]
             /\ transformation' = shortened_text
  /\ pc' = "done"
  /\ UNCHANGED <<video_shots, words, avars, request, max_duration, min_duration,
                 language, shortened_text, duration, temperature, oracle_calls,
                 last_input, call_temperature, long_retries>>

Next == ParseRequest \/ FirstAttempt \/ RetryShort \/ RetryLong \/ Finish

Spec == Init /\ [][Next]_vars

\* the handler runs to completion as long as every call it makes returns
FairSpec == Spec /\ WF_vars(Next)

\* ---- properties of the aligner ------------------------------------------

\* the clips handed to the first run lie within the span the shots cover
ShotsCover ==
  \A i \in 1..Len(original) :
    /\ video_shots[1].start_time <= original[i].startTime
    /\ original[i].endTime <= video_shots[Len(video_shots)].end_time

\* the lines of the first run whose start and end are both adjusted
Adjusted == IF pass = 1 /\ ShotsCover THEN 1..index ELSE {}

\* the length of the overlap of [s1, e1) and [s2, e2) is positive
Overlaps(s1, e1, s2, e2) == Max(s1, s2) < Min(e1, e2)

\* C4: after alignment every segment has end >= start and
\* duration = end - start >= 0, for covered, ascending, non-overlapping input.
C4_NonNegativeDuration ==
  \A i \in Adjusted :
    /\ transcript[i].endTime >= transcript[i].startTime
    /\ transcript[i].duration = transcript[i].endTime - transcript[i].startTime
    /\ transcript[i].duration >= 0

\* C5: alignment preserves order: the adjusted end of segment i is at or
\* before the adjusted start of segment i+1.
C5_OrderPreserved ==
  \A i \in Adjusted :
    (i + 1) \in Adjusted => transcript[i].endTime <= transcript[i + 1].startTime

\* C6: alignment never shrinks a segment: adjusted start <= original start
\* and adjusted end >= original end.
C6_NeverShrinks ==
  \A i \in Adjusted :
    /\ transcript[i].startTime <= original[i].startTime
    /\ transcript[i].endTime >= original[i].endTime

\* C7: no word lying entirely outside a segment's original range overlaps
\* the segment's adjusted range with positive length.
C7_NoAnnexedWord ==
  \A i \in Adjusted :
    \A k \in 1..Len(words) :
      (\/ words[k].endTime <= original[i].startTime
       \/ words[k].startTime >= original[i].endTime)
      => ~Overlaps(words[k].startTime, words[k].endTime,
                   transcript[i].startTime, transcript[i].endTime)

\* C8: alignment is idempotent: a second run on the output of the first,
\* with the same timelines and fresh cursors, returns the same list.
C8_Idempotent ==
  (pass = 2 /\ apc = "returned") => transcript = first_out

\* ---- properties of the convergence controller ---------------------------

InRange(d) == min_duration <= d /\ d <= max_duration

\* C1: in automated mode the controller eventually stops calling the oracle
\* and reaches a terminal state, whatever the oracle returns.
C1_Terminates == <>(pc = "done")

\* C2: the oracle is called at most 4 times for one request (the first call
\* plus every retry).
C2_AtMostFourCalls == oracle_calls <= 4

\* C3: when the loop is left with temperature below 0.6, the total aligned
\* duration of the returned segments lies within [min, max]; and once the
\* evaluated duration lies within [min, max] the only step left is the final
\* one, which makes no oracle call and keeps the shortened text.
C3_AcceptanceSound ==
  /\ [](pc = "done" /\ response.kind = "segments" /\ temperature < 6
          => InRange(SumDurations(response.segments, Len(response.segments))))
  /\ [][pc = "loop" /\ InRange(duration)
          => /\ pc' = "done"
             /\ oracle_calls' = oracle_calls
             /\ shortened_text' = shortened_text
             /\ last_input' = last_input]_vars

\* a request accepted below 0.6 after at least one retry
C3_Witness ==
  /\ pc = "done"
  /\ response.kind = "segments"
  /\ temperature < 6
  /\ temperature > 2
  /\ InRange(duration)

\* C9: if the first oracle call returns the blocked sentinel, the request ends
\* at once with the blocked failure: no further oracle call, no span mapping
\* or alignment, nothing persisted, no segments returned.
C9_FirstCallBlocked ==
  (oracle_calls = 1 /\ shortened_text = BlockedText)
    => /\ pc = "done"
       /\ response = [kind |-> "ValueError", segments |-> <<>>]
       /\ mapper_calls = 0
       /\ ~blocked_mapped
       /\ summary = NoText
       /\ transformation = NoText

\* the first call returned the sentinel and the handler has returned
C9_Witness ==
  /\ oracle_calls = 1
  /\ shortened_text = BlockedText
  /\ last_input = FullText
  /\ pc = "done"

\* C10: whichever oracle call returns the blocked sentinel, the request ends
\* in the blocked failure, and the sentinel is never passed to the Span
\* Mapper, re-submitted to the oracle, persisted or turned into segments.
C10_BlockedAlwaysSurfaced ==
  /\ shortened_text = BlockedText
       => (pc = "done" /\ response.kind = "ValueError")
  /\ ~blocked_mapped
  /\ last_input # BlockedText
  /\ summary # BlockedText
  /\ transformation # BlockedText

\* the segments the handler builds from a text (lines 221-226)
SegmentsOf(text) ==
  match_with_video_shots(video_shots, get_clips_from_transcript(words, text), words)

\* C11: when the temperature has reached 0.6 with the duration still outside
\* [min, max], no further oracle call is made and the request completes
\* normally, returning the aligned segments of the last text the oracle
\* returned although their total duration is out of range.
C11_ExhaustedReturnsLast ==
  /\ [](pc = "done" /\ temperature >= 6 /\ ~InRange(duration)
          => /\ response.kind = "segments"
             /\ response.segments = SegmentsOf(shortened_text).transcript
             /\ ~InRange(SumDurations(response.segments, Len(response.segments)))
             /\ summary = shortened_text)
  /\ [][pc = "loop" /\ temperature >= 6
          => /\ pc' = "done"
             /\ shortened_text' = shortened_text
             /\ last_input' = last_input
             /\ oracle_calls' = oracle_calls]_vars

\* a request that ran out of temperature and returned out-of-range segments
C11_Witness ==
  /\ pc = "done"
  /\ temperature = 6
  /\ ~InRange(duration)
  /\ response.kind = "segments"
  /\ Len(response.segments) > 0
  /\ long_retries = 4

\* the request's max (min) is missing or unparseable
BadField(f) == f.kind \in {"missing", "bad"}

\* C12: a missing or unparseable max, min or language code never fails the
\* request: max falls back to 40, min to 10, the language to the default
\* mapper, and processing continues with the first oracle call.
C12_DefaultsRecover ==
  /\ [](pc # "parse"
          => /\ BadField(request.max) => max_duration = 40
             /\ BadField(request.min) => min_duration = 10
             /\ request.language_code \in {"None", "xx"} => language = "DefaultLanguage")
  /\ [][pc = "parse" => pc' = "first" /\ response' = response]_vars

\* a request with an unparseable max past its parsing
C12_Witness ==
  /\ pc = "loop"
  /\ request.max.kind = "bad"
  /\ request.min.kind = "missing"
  /\ request.language_code = "None"
  /\ max_duration = 40

\* C13: at every accept/retry decision the duration compared against
\* [min, max] is the total aligned duration of the most recent oracle output.
C13_DurationIsCurrent ==
  pc = "loop" =>
    /\ ~calculate_duration(shortened_text, words, video_shots).err
    /\ duration = calculate_duration(shortened_text, words, video_shots).total_duration

\* a step of the while loop's body: the handler is in the loop and the step
\* is not the final one, which stores the summary
RetryStep == pc = "loop" /\ summary' = summary /\ vars' # vars

\* C14: a retry triggered by duration < min calls the oracle on the original
\* full text and leaves the temperature unchanged; a retry triggered by
\* duration > max calls it on the current shortened text, recomputes the
\* duration and raises the temperature by 0.1, so that after k too-long
\* retries the temperature is 0.2 + 0.1 * k.
C14_RetryAsymmetry ==
  /\ [][RetryStep =>
          IF duration < min_duration
          THEN /\ last_input' = FullText
               /\ temperature' = temperature
               /\ long_retries' = long_retries
          ELSE /\ duration > max_duration
               /\ last_input' = shortened_text
               /\ long_retries' = long_retries + 1
               /\ pc' = "loop" =>
                    /\ temperature' = temperature + 1
                    /\ duration' = calculate_duration(shortened_text', words,
                                                      video_shots).total_duration]_vars
  /\ [](pc = "loop" => temperature = 2 + long_retries)

\* a too-short retry made after two too-long ones
C14_Witness ==
  /\ pc = "loop"
  /\ long_retries = 2
  /\ temperature = 4
  /\ last_input = FullText
  /\ duration < min_duration

\* C15: every oracle call, the first and each retry, is made with the
\* controller's current temperature as its temperature argument (0.2 for
\* the first call).
C15_CallsUseTemperature ==
  [][(pc = "first" /\ pc' # "first") \/ RetryStep
       => call_temperature' = PassedTemperature(IF pc = "first" THEN 2 ELSE temperature)]_vars

\* C16: during one pass over covered, ascending, non-overlapping segments
\* both cursors never decrease, the shot cursor stays within
\* [0, len(shots) - 1] and the word cursor within [0, max(0, len(words) - 2)].
C16_CursorsMonotoneInRange ==
  /\ [](pass = 1 /\ ShotsCover
          => /\ 0 <= shot_index /\ shot_index <= Len(video_shots) - 1
             /\ 0 <= word_index /\ word_index <= Max(0, Len(words) - 2))
  /\ [][pass' = pass /\ pass = 1 /\ ShotsCover
          => shot_index' >= shot_index /\ word_index' >= word_index]_vars

\* a finished pass over two segments in which both cursors moved
C16_Witness ==
  /\ pass = 1
  /\ ShotsCover
  /\ apc = "returned"
  /\ Len(transcript) = 2
  /\ shot_index >= 1
  /\ word_index = Len(words) - 2
  /\ word_index >= 1

\* the text has a clip that starts at or after the last shot's end, or ends
\* after it
OutOfCoverage(text) ==
  LET clips == get_clips_from_transcript(words, text)
      last  == video_shots[Len(video_shots)].end_time
  IN \E i \in 1..Len(clips) : clips[i].startTime >= last \/ clips[i].endTime > last

\* C17: a segment that starts at or beyond the last shot's end, or ends
\* beyond it, stops the alignment with a hard error: the aligner returns no
\* list and the caller gets no segments.  (A text put in place by a too-short
\* retry has not been aligned yet.)
C17_OutOfRangeFails ==
  /\ \A t \in OracleOutputs(words) : OutOfCoverage(t) => SegmentsOf(t).err
  /\ OutOfCoverage(shortened_text)
       => \/ pc = "done" /\ response = [kind |-> "IndexError", segments |-> <<>>]
          \/ pc = "loop" /\ duration < min_duration /\ last_input = FullText
  /\ response.kind = "segments" => ~OutOfCoverage(shortened_text)
  /\ response.kind # "segments" => response.segments = <<>> /\ transformation = NoText

\* a request that failed on a text reaching past the last shot
C17_Witness ==
  /\ pc = "done"
  /\ response.kind = "IndexError"
  /\ OutOfCoverage(shortened_text)
  /\ long_retries = 1

\* exactly one of max, min and language code is missing or unparseable
OneBadField ==
  Cardinality({ n \in {"max", "min"} : BadField(request[n]) }
              \cup { n \in {"language_code"} : request.language_code \in {"None", "xx"} }) = 1

\* C18: when exactly one of max, min and language code is missing or
\* unparseable only that field takes its default; the other fields keep the
\* supplied values.
C18_PerFieldDefaults ==
  (pc # "parse" /\ OneBadField)
    => /\ ~BadField(request.max) => max_duration = request.max.val
       /\ ~BadField(request.min) => min_duration = request.min.val
       /\ request.language_code = "th-TH" => language = "Thai"

====
